---- MODULE Spec2Model ----
(***************************************************************************)
(* Model of the SQLite introspector of kysely-codegen:                     *)
(*   src/introspector/dialects/sqlite/sqlite-introspector.ts               *)
(* CheckConstraintParser (scanner, recognizer, value-list tokenizer) and   *)
(* SqliteIntrospector (enum registry builder, metadata enricher).          *)
(*                                                                         *)
(* A string is a sequence of one-character strings.  Indices into strings  *)
(* are 0-based, as in the source; s[i + 1] is the source's s[i].           *)
(***************************************************************************)
EXTENDS Integers, Sequences, FiniteSets, TLC

(***************************************************************************)
(* Characters                                                              *)
(***************************************************************************)

\* ASCII characters in code-unit order (backslash and backquote left out),
\* preceded by three control characters.  The index of a character orders
\* characters the way UTF-16 code units do.
Ascii ==
  << "\t", "\n", "\r",
     " ", "!", "\"", "#", "$", "%", "&", "'", "(", ")", "*", "+", ",", "-", ".", "/",
     "0", "1", "2", "3", "4", "5", "6", "7", "8", "9",
     ":", ";", "<", "=", ">", "?", "@",
     "A", "B", "C", "D", "E", "F", "G", "H", "I", "J", "K", "L", "M",
     "N", "O", "P", "Q", "R", "S", "T", "U", "V", "W", "X", "Y", "Z",
     "[", "]", "^", "_",
     "a", "b", "c", "d", "e", "f", "g", "h", "i", "j", "k", "l", "m",
     "n", "o", "p", "q", "r", "s", "t", "u", "v", "w", "x", "y", "z",
     "{", "|", "}", "~" >>

Chars == {Ascii[k] : k \in 1..Len(Ascii)}

CodeUnit == [c \in Chars |-> CHOOSE k \in 1..Len(Ascii) : Ascii[k] = c]

UpperLetters == {Ascii[k] : k \in CodeUnit["A"]..CodeUnit["Z"]}

LowerLetters == {Ascii[k] : k \in CodeUnit["a"]..CodeUnit["z"]}

Digits == {Ascii[k] : k \in CodeUnit["0"]..CodeUnit["9"]}

\* \s of the regular expressions and of String.prototype.trim
Whitespace == {" ", "\t", "\n", "\r"}

\* what . of a regular expression does not match
LineTerminators == {"\n", "\r"}

\* [A-Z_a-z]
IdentStart == UpperLetters \cup LowerLetters \cup {"_"}

\* \w
WordChars == IdentStart \cup Digits

\* String.prototype.toLowerCase on one character
LowerChar(c) ==
  IF c \in UpperLetters THEN Ascii[CodeUnit[c] + (CodeUnit["a"] - CodeUnit["A"])] ELSE c

toLowerCase(s) == [k \in 1..Len(s) |-> LowerChar(s[k])]

\* the positions 1..n of a string, in order
Positions(n) == [k \in 1..n |-> k]

\* replaceAll(/\s+/g, ' '): every maximal run of whitespace becomes one space
\* (the run's first character is kept, as a space; its other characters go)
CollapseWs(s) ==
  LET kept == SelectSeq(Positions(Len(s)),
                        LAMBDA k : s[k] \notin Whitespace \/ k = 1
                                   \/ s[k - 1] \notin Whitespace)
  IN  [j \in 1..Len(kept) |-> IF s[kept[j]] \in Whitespace THEN " " ELSE s[kept[j]]]

\* sql.replaceAll(/\s+/g, ' ').toLowerCase()
NormalizeSql(sql) == toLowerCase(CollapseWs(sql))

\* String.prototype.trim
Trim(s) ==
  LET keep == {k \in 1..Len(s) : s[k] \notin Whitespace}
  IN  IF keep = {} THEN <<>>
      ELSE LET lo == CHOOSE k \in keep : \A j \in keep : k <= j
               hi == CHOOSE k \in keep : \A j \in keep : k >= j
           IN  SubSeq(s, lo, hi)

\* String.prototype.indexOf(needle, from), 0-based, -1 when absent
IndexOf(s, needle, from) ==
  LET cands == {k \in from..(Len(s) - Len(needle)) :
                  \A j \in 1..Len(needle) : s[k + j] = needle[j]}
  IN  IF cands = {} THEN -1
      ELSE CHOOSE k \in cands : \A j \in cands : k <= j

\* a < b in the order Array.prototype.sort uses without a comparator:
\* code unit by code unit, a proper prefix first
RECURSIVE StrLess(_, _)
StrLess(a, b) ==
  IF b = <<>> THEN FALSE
  ELSE IF a = <<>> THEN TRUE
  ELSE IF a[1] = b[1] THEN StrLess(Tail(a), Tail(b))
  ELSE CodeUnit[a[1]] < CodeUnit[b[1]]

RECURSIVE InsertSorted(_, _)
InsertSorted(v, sorted) ==
  IF sorted = <<>> THEN <<v>>
  ELSE IF StrLess(v, sorted[1]) THEN <<v>> \o sorted
  ELSE <<sorted[1]>> \o InsertSorted(v, Tail(sorted))

RECURSIVE SortFrom(_, _)
SortFrom(values, k) ==
  IF k = 0 THEN <<>> ELSE InsertSorted(values[k], SortFrom(values, k - 1))

\* [...constraint.values].sort()
SortedValues(values) == SortFrom(values, Len(values))

(***************************************************************************)
(* CheckConstraintParser                                                   *)
(***************************************************************************)

NoContent == [found |-> FALSE, content |-> <<>>]

\* the indices (0-based) of the parentheses of sql from startIndex on, in order
ParenIndices(sql, startIndex) ==
  SelectSeq([k \in 1..(Len(sql) - startIndex) |-> startIndex + k - 1],
            LAMBDA i : sql[i + 1] = "(" \/ sql[i + 1] = ")")

RECURSIVE FindClose(_, _, _, _)
\* the for loop of extractParenthesesContent at the k-th parenthesis, which
\* is where depth changes: the index at which it returns, -1 when it runs
\* off the end
FindClose(sql, parens, k, depth) ==
  IF k > Len(parens) THEN -1
  ELSE IF sql[parens[k] + 1] = "("
       THEN FindClose(sql, parens, k + 1, depth + 1)
       ELSE IF depth - 1 = 0 THEN parens[k]
            ELSE FindClose(sql, parens, k + 1, depth - 1)

\* extractParenthesesContent(sql, startIndex): found = FALSE is the null result.
\* Its one caller passes the index of a '(' (lines 24-30), so depth is 1 after
\* the first character and stays positive until the return: content is every
\* character after the first, up to the one at which the loop returns.
extractParenthesesContent(sql, startIndex) ==
  LET close == FindClose(sql, ParenIndices(sql, startIndex), 1, 0)
  IN  IF close = -1 THEN NoContent
      ELSE [found |-> TRUE, content |-> SubSeq(sql, startIndex + 2, close)]

(***************************************************************************)
(* parseValueList: the tokenizer as a machine over                         *)
(*   [i, inQuotes, quoteChar, currentValue, values]                        *)
(***************************************************************************)

TokInit == [i |-> 0, inQuotes |-> FALSE, quoteChar |-> "", currentValue |-> <<>>,
            values |-> <<>>]

\* const trimmed = currentValue.trim(); if (trimmed) values.push(trimmed)
PushTrimmed(values, currentValue) ==
  IF Trim(currentValue) # <<>> THEN Append(values, Trim(currentValue)) ELSE values

\* TokStep without the look-ahead for a doubled delimiter: every active
\* delimiter leaves the quoted state
TokStepNoEscape(valuesString, st) ==
  LET i    == st.i
      char == valuesString[i + 1]
  IN  IF ~st.inQuotes /\ (char = "\"" \/ char = "'")
      THEN [st EXCEPT !.inQuotes = TRUE, !.quoteChar = char, !.i = i + 1]
      ELSE IF st.inQuotes /\ char = st.quoteChar
      THEN [st EXCEPT !.inQuotes = FALSE, !.quoteChar = "", !.i = i + 1]
      ELSE IF ~st.inQuotes /\ char = ","
      THEN [st EXCEPT !.values = PushTrimmed(@, st.currentValue),
                      !.currentValue = <<>>, !.i = i + 1]
      ELSE [st EXCEPT !.currentValue = Append(@, char), !.i = i + 1]

\* one iteration of the for loop, i++ included
TokStep(valuesString, st) ==
  LET i    == st.i
      char == valuesString[i + 1]
  IN  IF ~st.inQuotes /\ (char = "\"" \/ char = "'")
      THEN [st EXCEPT !.inQuotes = TRUE, !.quoteChar = char, !.i = i + 1]
      ELSE IF st.inQuotes /\ char = st.quoteChar
      THEN IF i + 1 < Len(valuesString) /\ valuesString[i + 2] = st.quoteChar
           THEN [st EXCEPT !.currentValue = Append(@, char), !.i = i + 2]
           ELSE [st EXCEPT !.inQuotes = FALSE, !.quoteChar = "", !.i = i + 1]
      ELSE IF ~st.inQuotes /\ char = ","
      THEN [st EXCEPT !.values = PushTrimmed(@, st.currentValue),
                      !.currentValue = <<>>, !.i = i + 1]
      ELSE [st EXCEPT !.currentValue = Append(@, char), !.i = i + 1]

\* after the loop: add the last value
TokFinish(st) == PushTrimmed(st.values, st.currentValue)

RECURSIVE TokRun(_, _)
TokRun(valuesString, st) ==
  IF st.i >= Len(valuesString) THEN st ELSE TokRun(valuesString, TokStep(valuesString, st))

parseValueList(valuesString) == TokFinish(TokRun(valuesString, TokInit))

(***************************************************************************)
(* parseInConstraint and its regular expression; positions are 1-based     *)
(***************************************************************************)

\* the first position >= k that holds no character of set (Len + 1 if none):
\* where a greedy \s* or \w* starting at k stops
SkipWhile(c, k, set) ==
  LET stops == {j \in k..Len(c) : c[j] \notin set}
  IN  IF stops = {} THEN Len(c) + 1
      ELSE CHOOSE j \in stops : \A h \in stops : j <= h

AllIn(c, from, to, set) == \A j \in from..to : c[j] \in set

NoMatch == [matched |-> FALSE, column |-> <<>>, body |-> <<>>]

\* constraintContent.match(/^\s*([A-Z_a-z]\w*)\s+in\s*\(\s*(.+?)\s*\)\s*$/):
\* group 1 as column, group 2 as body.
\* \s*, \w* and \s+ are greedy and what follows each cannot start with a
\* character it matches, so they stop at SkipWhile.  The final \) is the last
\* non-whitespace character.  Between the inner ( and it, the greedy \s* takes
\* the longest whitespace prefix and the lazy .+? the shortest non-empty run
\* of non-line-terminators that leave only whitespace before the final ).
MatchInPattern(c) ==
  LET n  == Len(c)
      p0 == SkipWhile(c, 1, Whitespace)
  IN  IF p0 > n \/ c[p0] \notin IdentStart THEN NoMatch
      ELSE
      LET p1 == SkipWhile(c, p0 + 1, WordChars)
          p2 == SkipWhile(c, p1, Whitespace)
      IN  IF p2 = p1 \/ p2 + 1 > n \/ c[p2] # "i" \/ c[p2 + 1] # "n" THEN NoMatch
          ELSE
          LET p3 == SkipWhile(c, p2 + 2, Whitespace)
              q  == CHOOSE j \in 0..n :
                      /\ j = 0 \/ c[j] \notin Whitespace
                      /\ AllIn(c, j + 1, n, Whitespace)
          IN  IF p3 > n \/ c[p3] # "(" \/ q <= p3 \/ c[q] # ")" THEN NoMatch
              ELSE
              \* group 2 is c[s .. e - 1]: s is at most sMax, where the
              \* whitespace after ( ends, and e at least eMin, where the
              \* whitespace before the final ) starts
              LET sMax == SkipWhile(c, p3 + 1, Whitespace)
                  nonWs == {j \in (p3 + 1)..(q - 1) : c[j] \notin Whitespace}
                  eMin == IF nonWs = {} THEN p3 + 1
                          ELSE 1 + CHOOSE j \in nonWs : \A h \in nonWs : j >= h
                  End(s) == IF s + 1 > eMin THEN s + 1 ELSE eMin
                  starts == {s \in (p3 + 1)..(q - 1) :
                               /\ s <= sMax
                               /\ \A j \in s..(End(s) - 1) : c[j] \notin LineTerminators}
              IN  IF starts = {} THEN NoMatch
                  ELSE
                  LET s == CHOOSE x \in starts : \A y \in starts : x >= y
                  IN  [matched |-> TRUE, column |-> SubSeq(c, p0, p1 - 1),
                       body |-> SubSeq(c, s, End(s) - 1)]

NoConstraint == [found |-> FALSE, column |-> <<>>, values |-> <<>>]

\* parseInConstraint(constraintContent): found = FALSE is the null result
parseInConstraint(constraintContent) ==
  LET inMatch == MatchInPattern(constraintContent)
  IN  IF ~inMatch.matched THEN NoConstraint
      ELSE LET values == parseValueList(inMatch.body)
           IN  IF Len(values) > 0
               THEN [found |-> TRUE, column |-> inMatch.column, values |-> values]
               ELSE NoConstraint

(***************************************************************************)
(* parseEnumConstraints: one iteration of the while (true) loop            *)
(***************************************************************************)

check == <<"c", "h", "e", "c", "k">>

\* normalizedSql.indexOf('check', searchIndex)
CheckIndex(normalizedSql, searchIndex) == IndexOf(normalizedSql, check, searchIndex)

\* normalizedSql.indexOf('(', checkIndex), or -1 when there is no 'check'
OpenParenIndex(normalizedSql, searchIndex) ==
  LET checkIndex == CheckIndex(normalizedSql, searchIndex)
  IN  IF checkIndex = -1 THEN -1 ELSE IndexOf(normalizedSql, <<"(">>, checkIndex)

\* neither break is taken
LoopContinues(normalizedSql, searchIndex) == OpenParenIndex(normalizedSql, searchIndex) # -1

\* if (!constraintContent): null or the empty string
NoSpan(constraintContent) == ~constraintContent.found \/ constraintContent.content = <<>>

\* NextSearchIndex with the unmatched case resuming at the '(' itself
NextSearchIndexAtParen(openParenIndex, constraintContent) ==
  IF NoSpan(constraintContent) THEN openParenIndex
  ELSE openParenIndex + Len(constraintContent.content) + 2

\* searchIndex set by the iteration
NextSearchIndex(openParenIndex, constraintContent) ==
  IF NoSpan(constraintContent) THEN openParenIndex + 1
  ELSE openParenIndex + Len(constraintContent.content) + 2

\* constraints after the iteration
NextConstraints(constraints, constraintContent) ==
  IF NoSpan(constraintContent) THEN constraints
  ELSE LET enumConstraint == parseInConstraint(constraintContent.content)
       IN  IF enumConstraint.found
           THEN Append(constraints, [column |-> enumConstraint.column,
                                     values |-> enumConstraint.values])
           ELSE constraints

RECURSIVE ScanLoop(_, _, _)
ScanLoop(normalizedSql, searchIndex, constraints) ==
  IF ~LoopContinues(normalizedSql, searchIndex) THEN constraints
  ELSE LET openParenIndex == OpenParenIndex(normalizedSql, searchIndex)
           constraintContent == extractParenthesesContent(normalizedSql, openParenIndex)
       IN  ScanLoop(normalizedSql, NextSearchIndex(openParenIndex, constraintContent),
                    NextConstraints(constraints, constraintContent))

\* parseEnumConstraints(sql) as a function
parseEnumConstraints(sql) == ScanLoop(NormalizeSql(sql), 0, <<>>)

(***************************************************************************)
(* EnumCollection (../../enum-collection): a collection of entries         *)
(* [key, values]                                                           *)
(***************************************************************************)

\* new EnumCollection()
EmptyEnums == {}

\* enums.set(key, values): replaces the entry of that exact key
EnumsSet(enums, key, values) ==
  {e \in enums : e.key # key} \cup {[key |-> key, values |-> values]}

\* null, as an enumValues
Null == [isNull |-> TRUE, values |-> <<>>]

\* enums.get(key): the values stored under key, null when there are none
EnumsGet(enums, key) ==
  IF \E e \in enums : e.key = key
  THEN [isNull |-> FALSE, values |-> (CHOOSE e \in enums : e.key = key).values]
  ELSE Null

(***************************************************************************)
(* SqliteIntrospector                                                      *)
(***************************************************************************)

\* `${table.name}.${column.name}` and `${row.name}.${constraint.column}`
EnumKey(tableName, columnName) == tableName \o <<".">> \o columnName

\* createDatabaseMetadata looking enums up by the column's name alone
createDatabaseMetadataByColumn(enums, rawTables) ==
  [t \in 1..Len(rawTables) |->
     [name    |-> rawTables[t].name,
      isView  |-> rawTables[t].isView,
      columns |-> [c \in 1..Len(rawTables[t].columns) |->
                     [name       |-> rawTables[t].columns[c].name,
                      dataType   |-> rawTables[t].columns[c].dataType,
                      enumValues |-> EnumsGet(enums, rawTables[t].columns[c].name)]]]]

\* createDatabaseMetadata({enums, tables}): the tables handed to
\* new DatabaseMetadata, every column a new record with enumValues added
createDatabaseMetadata(enums, rawTables) ==
  [t \in 1..Len(rawTables) |->
     [name    |-> rawTables[t].name,
      isView  |-> rawTables[t].isView,
      columns |-> [c \in 1..Len(rawTables[t].columns) |->
                     [name       |-> rawTables[t].columns[c].name,
                      dataType   |-> rawTables[t].columns[c].dataType,
                      enumValues |-> EnumsGet(enums,
                                       EnumKey(rawTables[t].name,
                                               rawTables[t].columns[c].name))]]]]

(***************************************************************************)
(* The database: the tables getTables reports and the CREATE TABLE text    *)
(* sqlite_master holds for each.  A table is                               *)
(*   [name, columns, clauses, sql]                                         *)
(* where clauses describes the CHECK clauses sql was written with.         *)
(***************************************************************************)

MaxRows == 2

MaxClauses == 2

TableNames == << <<"t">>, <<"t", ".", "a">>, <<"c", "h", "e", "c", "k", "o", "u", "t">> >>

ColumnNames == << <<"a">>, <<"B">>, <<"a", ".", "a">> >>

\* the columns CHECK clauses are written about
ClauseColumns == {<<"a">>, <<"B">>}

\* the last one holds one literal, the empty string
ValueLists == { << <<"Y">>, <<"x">> >>, << <<"x">>, <<"x">> >>, << <<>> >> }

Shapes == {"between", "or", "unclosed"}

Clauses ==
  {[shape |-> "in", column |-> c, values |-> v] : c \in ClauseColumns, v \in ValueLists}
  \cup {[shape |-> sh, column |-> <<"a">>, values |-> <<>>] : sh \in Shapes}

RECURSIVE Join(_, _)
\* the strings of a sequence, sep between them
Join(strings, sep) ==
  IF strings = <<>> THEN <<>>
  ELSE IF Len(strings) = 1 THEN strings[1]
  ELSE strings[1] \o sep \o Join(Tail(strings), sep)

\* a literal as SQL writes it: in single quotes, a single quote doubled
QuoteLiteral(v) ==
  <<"'">> \o Join([k \in 1..Len(v) |-> IF v[k] = "'" THEN <<"'", "'">> ELSE <<v[k]>>], <<>>)
          \o <<"'">>

\* an identifier as SQL writes it: in double quotes when it is no plain word
QuoteIdent(name) ==
  IF \A k \in 1..Len(name) : name[k] \in WordChars THEN name
  ELSE <<"\"">> \o name \o <<"\"">>

\* what a clause holds between the parentheses of CHECK ( ... ): the
\* membership test and the range test of the tests' tables, and the
\* specification's OR-joined tests
ClauseBody(cl) ==
  LET col == QuoteIdent(cl.column)
  IN  CASE cl.shape = "in" ->
             col \o <<" ", "I", "N", " ", "(">>
               \o Join([k \in 1..Len(cl.values) |-> QuoteLiteral(cl.values[k])], <<",", " ">>)
               \o <<")">>
        [] cl.shape = "between" -> col \o <<" ", "B", "E", "T", "W", "E", "E", "N", " ", "1", " ", "A", "N", "D", " ", "5">>
        [] cl.shape = "or" -> col \o <<" ", "I", "N", " ", "(", "'", "x", "'", ")", " ", "O", "R", " ", "z", " ", "I", "N", " ", "(", "'", "y", "'", ")">>

\* a clause as the CREATE TABLE text holds it; an unclosed one is the
\* specification's CHECK (status IN ('a','b'
RenderClause(cl) ==
  IF cl.shape = "unclosed" THEN <<"C", "H", "E", "C", "K", " ", "(">> \o QuoteIdent(cl.column) \o <<" ", "I", "N", " ", "(", "'", "a", "'", ",", "'", "b", "'">>
  ELSE <<"C", "H", "E", "C", "K", " ", "(">> \o ClauseBody(cl) \o <<")">>

\* CREATE TABLE <name> (<column> TEXT, ..., CHECK (...), ...)
RenderTable(name, columns, clauses) ==
  <<"C", "R", "E", "A", "T", "E", " ", "T", "A", "B", "L", "E", " ">> \o QuoteIdent(name) \o <<" ", "(", "\n", " ", " ">>
    \o Join([k \in 1..Len(columns) |-> QuoteIdent(columns[k]) \o <<" ", "T", "E", "X", "T">>]
              \o [k \in 1..Len(clauses) |-> RenderClause(clauses[k])],
            <<",", "\n", " ", " ">>)
    \o <<")">>

Table(name, clauses) ==
  [name |-> name, columns |-> ColumnNames, clauses |-> clauses,
   sql |-> RenderTable(name, ColumnNames, clauses)]

\* the sequences of 1..MaxRows table names, in the order of TableNames
NameChoices ==
  LET Pick(S) == SelectSeq(TableNames, LAMBDA n : n \in S)
  IN  {Pick(S) : S \in {X \in SUBSET {TableNames[k] : k \in 1..Len(TableNames)} :
                          Cardinality(X) \in 1..MaxRows}}

\* the databases of names whose tables hold the clauses of flat, in order,
\* the k-th one in table owner[k]
Database(names, flat, owner) ==
  [t \in 1..Len(names) |->
     Table(names[t],
           LET mine == SelectSeq(Positions(Len(flat)), LAMBDA k : owner[k] = t)
           IN  [j \in 1..Len(mine) |-> flat[mine[j]]])]

\* await this.getTables(options): the table and column descriptors
getTables(database) ==
  [t \in 1..Len(database) |->
     [name    |-> database[t].name,
      isView  |-> FALSE,
      columns |-> [c \in 1..Len(database[t].columns) |->
                     [name |-> database[t].columns[c], dataType |-> "TEXT"]]]]

\* selectFrom('sqlite_master').select(['name', 'sql']) ... .execute()
SqliteMaster(database) ==
  [t \in 1..Len(database) |-> [name |-> database[t].name, sql |-> database[t].sql]]

(***************************************************************************)
(* State                                                                   *)
(***************************************************************************)

VARIABLES
  db,             \* the database introspect is run against
  pc,             \* where introspect (or parseValueList) stands
  tables,         \* introspect: const tables
  rows,           \* introspectCheckConstraintEnums: const rows
  rowIndex,       \* the row the for loop over rows is at (1-based)
  normalizedSql,  \* parseEnumConstraints: const normalizedSql
  searchIndex,    \* parseEnumConstraints: let searchIndex
  constraints,    \* parseEnumConstraints: const constraints
  spans,          \* the calls of parseInConstraint made for the current row:
                  \* [open |-> openParenIndex, content |-> constraintContent]
  constraintIndex,\* the constraint the for loop over constraints is at
  enums,          \* introspectCheckConstraintEnums: const enums
  metadata,       \* the tables of the DatabaseMetadata introspect returns
  valuesString,   \* parseValueList: its argument
  tok             \* parseValueList: i, inQuotes, quoteChar, currentValue, values

vars == << db, pc, tables, rows, rowIndex, normalizedSql, searchIndex, constraints,
           spans, constraintIndex, enums, metadata, valuesString, tok >>

introspectVars == << tables, rows, rowIndex, normalizedSql, searchIndex, constraints,
                     spans, constraintIndex, enums, metadata >>

\* the state before introspect(options) is called on database
Start(database) ==
  /\ db = database
  /\ pc = "introspect"
  /\ tables = <<>>
  /\ rows = <<>>
  /\ rowIndex = 0
  /\ normalizedSql = <<>>
  /\ searchIndex = 0
  /\ constraints = <<>>
  /\ spans = <<>>
  /\ constraintIndex = 0
  /\ enums = EmptyEnums
  /\ metadata = <<>>
  /\ valuesString = <<>>
  /\ tok = TokInit

Nondecreasing(owner, k) == \A i \in 1..k, j \in 1..k : i <= j => owner[i] <= owner[j]

Init ==
  \E names \in NameChoices, k \in 0..MaxClauses :
    \E flat \in [1..k -> Clauses], owner \in [1..k -> 1..Len(names)] :
      /\ Nondecreasing(owner, k)
      /\ Start(Database(names, flat, owner))

(***************************************************************************)
(* introspect                                                              *)
(***************************************************************************)

\* lines 153-168: getTables, new EnumCollection, the sqlite_master query
Introspect ==
  /\ pc = "introspect"
  /\ tables' = getTables(db)
  /\ enums' = EmptyEnums
  /\ rows' = SqliteMaster(db)
  /\ rowIndex' = 1
  /\ pc' = "rows"
  /\ UNCHANGED << db, normalizedSql, searchIndex, constraints, spans, constraintIndex,
                  metadata, valuesString, tok >>

\* lines 171-174, 12-18: row.sql is not empty and parseEnumConstraints(row.sql)
\* is entered
ParseRow ==
  /\ pc = "rows"
  /\ rowIndex <= Len(rows)
  /\ rows[rowIndex].sql # <<>>
  /\ normalizedSql' = NormalizeSql(rows[rowIndex].sql)
  /\ searchIndex' = 0
  /\ constraints' = <<>>
  /\ spans' = <<>>
  /\ pc' = "scan"
  /\ UNCHANGED << db, tables, rows, rowIndex, constraintIndex, enums, metadata,
                  valuesString, tok >>

\* lines 19-44: one iteration of while (true) that takes neither break
ScanIteration ==
  /\ pc = "scan"
  /\ LoopContinues(normalizedSql, searchIndex)
  /\ LET openParenIndex == OpenParenIndex(normalizedSql, searchIndex)
         constraintContent == extractParenthesesContent(normalizedSql, openParenIndex)
     IN  /\ searchIndex' = NextSearchIndex(openParenIndex, constraintContent)
         /\ constraints' = NextConstraints(constraints, constraintContent)
         /\ spans' = IF NoSpan(constraintContent) THEN spans
                     ELSE Append(spans, [open |-> openParenIndex,
                                         content |-> constraintContent.content])
  /\ UNCHANGED << db, pc, tables, rows, rowIndex, normalizedSql, constraintIndex, enums,
                  metadata, valuesString, tok >>

\* lines 21, 25, 46: a break; parseEnumConstraints returns constraints
ScanReturn ==
  /\ pc = "scan"
  /\ ~LoopContinues(normalizedSql, searchIndex)
  /\ constraintIndex' = 1
  /\ pc' = "store"
  /\ UNCHANGED << db, tables, rows, rowIndex, normalizedSql, searchIndex, constraints,
                  spans, enums, metadata, valuesString, tok >>

\* StoredValues without the sort
StoredValuesUnsorted(constraint) == constraint.values

\* the sorted copy stored for a constraint
StoredValues(constraint) == SortedValues(constraint.values)

\* lines 176-181: one iteration of the for loop over constraints
StoreConstraint ==
  /\ pc = "store"
  /\ constraintIndex <= Len(constraints)
  /\ LET constraint == constraints[constraintIndex]
         key == EnumKey(rows[rowIndex].name, constraint.column)
     IN  enums' = EnumsSet(enums, key, StoredValues(constraint))
  /\ constraintIndex' = constraintIndex + 1
  /\ UNCHANGED << db, pc, tables, rows, rowIndex, normalizedSql, searchIndex, constraints,
                  spans, metadata, valuesString, tok >>

\* line 170: the for loop over rows moves on
NextRow ==
  /\ pc = "store"
  /\ constraintIndex > Len(constraints)
  /\ rowIndex' = rowIndex + 1
  /\ pc' = "rows"
  /\ UNCHANGED << db, tables, rows, normalizedSql, searchIndex, constraints, spans,
                  constraintIndex, enums, metadata, valuesString, tok >>

\* lines 184, 155: return enums; return this.createDatabaseMetadata({enums, tables})
CreateDatabaseMetadata ==
  /\ pc = "rows"
  /\ rowIndex > Len(rows)
  /\ metadata' = createDatabaseMetadata(enums, tables)
  /\ pc' = "done"
  /\ UNCHANGED << db, tables, rows, rowIndex, normalizedSql, searchIndex, constraints,
                  spans, constraintIndex, enums, valuesString, tok >>

Next ==
  \/ Introspect
  \/ ParseRow
  \/ ScanIteration
  \/ ScanReturn
  \/ StoreConstraint
  \/ NextRow
  \/ CreateDatabaseMetadata

Spec == Init /\ [][Next]_vars

(***************************************************************************)
(* Scanning arbitrary text: one table whose CREATE TABLE text is any       *)
(* sequence of at most MaxTokens of the pieces below                       *)
(***************************************************************************)

MaxTokens == 5

ScanTokens == << <<"C", "H", "E", "C", "K", " ", "(">>, <<"c", "h", "e", "c", "k">>, <<"(">>, <<")">>, <<"a", " ", "I", "N", " ", "(", "'", "x", "'">> >>

ScanTexts ==
  UNION {{ <<"C", "R", "E", "A", "T", "E", " ", "T", "A", "B", "L", "E", " ", "t", " ">> \o Join([k \in 1..n |-> ScanTokens[pick[k]]], <<>>) :
             pick \in [1..n -> 1..Len(ScanTokens)]} : n \in 0..MaxTokens}

InitScan ==
  \E text \in ScanTexts :
    Start(<< [name |-> <<"t">>, columns |-> ColumnNames, clauses |-> <<>>, sql |-> text] >>)

SpecScan == InitScan /\ [][Next]_vars

(***************************************************************************)
(* parseValueList on its own, one loop iteration at a time, on every       *)
(* string of at most MaxLength characters of TokenizerChars and on the     *)
(* specification's examples                                                *)
(***************************************************************************)

MaxLength == 5

TokenizerChars == {"'", "\"", ",", " ", "a", "b"}

ExampleItsOk == <<"'", "i", "t", "'", "'", "s", "'", ",", " ", "\"", "o", "k", "\"">>

ExampleAbC == <<"'", "a", ",", "b", "'", ",", " ", "c">>

ExampleSpaces == <<"'", " ", "a", " ", " ", "b", " ", "'">>

ValuesStrings ==
  UNION {[1..n -> TokenizerChars] : n \in 0..MaxLength}
    \cup {ExampleItsOk, ExampleAbC, ExampleSpaces}

InitTok ==
  /\ valuesString \in ValuesStrings
  /\ tok = TokInit
  /\ pc = "tokenize"
  /\ db = <<>>
  /\ tables = <<>>
  /\ rows = <<>>
  /\ rowIndex = 0
  /\ normalizedSql = <<>>
  /\ searchIndex = 0
  /\ constraints = <<>>
  /\ spans = <<>>
  /\ constraintIndex = 0
  /\ enums = EmptyEnums
  /\ metadata = <<>>

\* lines 98-120: one iteration of the for loop
TokIterate ==
  /\ pc = "tokenize"
  /\ tok.i < Len(valuesString)
  /\ tok' = TokStep(valuesString, tok)
  /\ UNCHANGED << db, pc, valuesString, introspectVars >>

\* lines 122-126: the last value is added and values returned
TokReturn ==
  /\ pc = "tokenize"
  /\ tok.i >= Len(valuesString)
  /\ tok' = [tok EXCEPT !.values = TokFinish(tok)]
  /\ pc' = "tokenized"
  /\ UNCHANGED << db, valuesString, introspectVars >>

NextTok == TokIterate \/ TokReturn

SpecTok == InitTok /\ [][NextTok]_vars

(***************************************************************************)
(* Properties                                                              *)
(***************************************************************************)

\* the characters of s at the 0-based indices from..to that equal ch
CountOf(s, ch, from, to) == Cardinality({i \in from..to : s[i + 1] = ch})

\* the '(' at index p of s is never closed: from p on, more '(' than ')'
\* have been read at every index
Unclosed(s, p) ==
  \A q \in p..(Len(s) - 1) : CountOf(s, "(", p, q) > CountOf(s, ")", p, q)

\* the '(' at index p of s is closed by the very next character
EnclosesNothing(s, p) == p + 1 < Len(s) /\ s[p + 2] = ")"

\* C7, the loop's cursor: an iteration of the scanning loop leaves
\* searchIndex strictly greater than it found it.
C7_CursorIncreases ==
  [][pc = "scan" /\ pc' = "scan" => searchIndex' > searchIndex]_vars

\* C7, the unmatched '(': when the '(' after the next CHECK is never closed,
\* or encloses nothing, the iteration hands no span to the recognizer, adds
\* no constraint and resumes just past that '('.
C7_UnmatchedSkipped ==
  [][(/\ pc = "scan" /\ pc' = "scan"
      /\ \/ Unclosed(normalizedSql, OpenParenIndex(normalizedSql, searchIndex))
         \/ EnclosesNothing(normalizedSql, OpenParenIndex(normalizedSql, searchIndex)))
     => /\ searchIndex' = OpenParenIndex(normalizedSql, searchIndex) + 1
        /\ constraints' = constraints
        /\ spans' = spans]_vars

\* C7, the example CHECK (status IN ('a','b' : text that closes no
\* parenthesis at all yields no constraint and no registry entry.
C7_NoCloseNoEntry ==
  (pc \in {"store", "done"} /\ CountOf(normalizedSql, ")", 0, Len(normalizedSql) - 1) = 0)
    => constraints = <<>> /\ enums = {}

\* C7, the bound of the cursor: while scanning, searchIndex never passes the
\* end of the text (with the strict increase, the loop's variant).
C7_CursorBounded == pc = "scan" => searchIndex <= Len(normalizedSql)

\* C7: parseEnumConstraints terminates on every text: the cursor strictly
\* increases on every loop iteration and never passes the end of the text,
\* an unmatched or empty '(' is skipped without a span or an entry, and
\* scanning resumes just past it.
C7_ScanTerminates ==
  /\ C7_CursorIncreases
  /\ C7_UnmatchedSkipped
  /\ []C7_NoCloseNoEntry
  /\ []C7_CursorBounded

\* the scan has just skipped an unclosed '(' that follows a CHECK, with
\* more text to scan after it
C7_Witness ==
  /\ pc = "scan"
  /\ searchIndex > 0
  /\ searchIndex < Len(normalizedSql)
  /\ normalizedSql[searchIndex] = "("
  /\ Unclosed(normalizedSql, searchIndex - 1)
  /\ IndexOf(normalizedSql, check, 0) # -1
  /\ IndexOf(normalizedSql, check, 0) < searchIndex
  /\ spans = <<>>

\* v is in ascending order
Ascending(v) == \A i \in 1..Len(v), j \in 1..Len(v) : i < j => ~StrLess(v[j], v[i])

\* v and w hold the same strings, each as often
SameStrings(v, w) ==
  /\ Len(v) = Len(w)
  /\ \A i \in 1..Len(v) :
       Cardinality({k \in 1..Len(v) : v[k] = v[i]})
         = Cardinality({k \in 1..Len(w) : w[k] = v[i]})

\* the last constraint of cs about column
LastAbout(cs, column) ==
  cs[CHOOSE k \in 1..Len(cs) :
       /\ cs[k].column = column
       /\ \A j \in 1..Len(cs) : cs[j].column = column => j <= k]

\* C9, one entry per key: no two entries of the registry share a key.
C9_OneEntryPerKey == \A e1 \in enums, e2 \in enums : e1.key = e2.key => e1 = e2

\* C9, last match wins: once introspect has returned, for every row and
\* every column the row's constraints name, the registry holds under
\* row.column a list in ascending order that holds the same strings, each
\* as often, as the values of the last of those constraints.
C9_LastMatchWins ==
  pc = "done" =>
    \A r \in 1..Len(rows) :
      LET cs == parseEnumConstraints(rows[r].sql)
      IN  \A k \in 1..Len(cs) :
            \E e \in enums :
              /\ e.key = rows[r].name \o <<".">> \o cs[k].column
              /\ Ascending(e.values)
              /\ SameStrings(e.values, LastAbout(cs, cs[k].column).values)

\* C9, the frame of an overwrite: storing one constraint changes no entry
\* of another key.
C9_OtherKeysUnchanged ==
  [][(pc = "store" /\ constraintIndex' = constraintIndex + 1) =>
       LET key == rows[rowIndex].name \o <<".">> \o constraints[constraintIndex].column
       IN  /\ \A e \in enums : e.key # key => e \in enums'
           /\ \A e \in enums' : e.key # key => e \in enums]_vars

C10_Projection ==
  pc = "done" =>
    /\ Len(metadata) = Len(tables)
    /\ \A t \in 1..Len(tables) :
         /\ metadata[t].name = tables[t].name
         /\ metadata[t].isView = tables[t].isView
         /\ Len(metadata[t].columns) = Len(tables[t].columns)
         /\ \A c \in 1..Len(tables[t].columns) :
              LET column == tables[t].columns[c]
                  result == metadata[t].columns[c]
                  key    == tables[t].name \o <<".">> \o column.name
                  held   == {e \in enums : e.key = key}
              IN  /\ result.name = column.name
                  /\ result.dataType = column.dataType
                  /\ IF held = {} THEN result.enumValues.isNull
                     ELSE /\ ~result.enumValues.isNull
                          /\ \E e \in held : result.enumValues.values = e.values

\* C10, the inputs: the step that builds the result changes neither the
\* table descriptors it was given nor the registry, and the descriptors are
\* still the ones getTables returned.
C10_InputsUntouched ==
  [][pc' = "done" => tables' = tables /\ enums' = enums /\ tables' = getTables(db)]_vars

\* C10: createDatabaseMetadata is a pure projection of the table
\* descriptors and the registry.
C10_PureProjection == []C10_Projection /\ C10_InputsUntouched

\* introspect has returned two tables, with an enumValues that is not null
\* in the second
C10_Witness ==
  /\ pc = "done"
  /\ Len(metadata) = 2
  /\ \E c \in 1..Len(metadata[2].columns) : ~metadata[2].columns[c].enumValues.isNull

\* the character the tokenizer is at, and the one after it ("" at the end)
CharAt == valuesString[tok.i + 1]

CharAfter == IF tok.i + 1 < Len(valuesString) THEN valuesString[tok.i + 2] ELSE ""

\* C6, the quoted state: in a loop iteration made inside a quoted literal, a
\* doubled active delimiter appends one delimiter, skips both and stays
\* quoted; a single one leaves the quoted state and appends nothing; any
\* other character, the other quote and the comma included, is appended and
\* ends no value.
C6_QuotedState ==
  [][(pc = "tokenize" /\ pc' = "tokenize" /\ tok.inQuotes) =>
       /\ tok'.values = tok.values
       /\ IF CharAt = tok.quoteChar
          THEN IF CharAfter = tok.quoteChar
               THEN /\ tok'.inQuotes /\ tok'.quoteChar = tok.quoteChar
                    /\ tok'.currentValue = Append(tok.currentValue, tok.quoteChar)
                    /\ tok'.i = tok.i + 2
               ELSE /\ ~tok'.inQuotes
                    /\ tok'.currentValue = tok.currentValue
                    /\ tok'.i = tok.i + 1
          ELSE /\ tok'.inQuotes /\ tok'.quoteChar = tok.quoteChar
               /\ tok'.currentValue = Append(tok.currentValue, CharAt)
               /\ tok'.i = tok.i + 1]_vars

\* C6, the separator: a loop iteration ends a value only at a comma read
\* outside quotes.
C6_OnlyUnquotedCommaEnds ==
  [][(pc = "tokenize" /\ pc' = "tokenize"
      /\ (tok'.values # tok.values \/ (tok.currentValue # <<>> /\ tok'.currentValue = <<>>)))
     => ~tok.inQuotes /\ CharAt = ","]_vars

\* C6, the examples: 'it''s', "ok" yields it's and ok; 'a,b', c yields a,b
\* and c.
C6_Examples ==
  pc = "tokenized" =>
    /\ valuesString = ExampleItsOk => tok.values = << <<"i", "t", "'", "s">>, <<"o", "k">> >>
    /\ valuesString = ExampleAbC => tok.values = << <<"a", ",", "b">>, <<"c">> >>

\* C6: the tokenizer is quote-aware for ' and ": the transitions of the
\* quoted state, only an unquoted comma as separator, and the two examples.
C6_QuoteAware == C6_QuotedState /\ C6_OnlyUnquotedCommaEnds /\ []C6_Examples

\* the tokenizer is inside a quoted literal, has read a doubled delimiter
\* into the current value, and stands at a comma
C6_Witness ==
  /\ pc = "tokenize"
  /\ tok.inQuotes
  /\ \E k \in 1..Len(tok.currentValue) : tok.currentValue[k] = tok.quoteChar
  /\ tok.i < Len(valuesString)
  /\ CharAt = ","

\* s is one quoted literal: it opens and closes with the same quote
\* character, which does not occur between, where some character is not
\* whitespace
OneQuotedLiteral(s) ==
  /\ Len(s) >= 3
  /\ s[1] \in {"'", "\""}
  /\ s[Len(s)] = s[1]
  /\ \A k \in 2..(Len(s) - 1) : s[k] # s[1]
  /\ \E k \in 2..(Len(s) - 1) : s[k] \notin Whitespace

\* C5: whitespace inside a quoted literal is preserved exactly: tokenizing
\* one quoted literal yields the one value that is the text between its
\* quotes.
C5_QuotedWhitespaceKept ==
  (pc = "tokenized" /\ OneQuotedLiteral(valuesString)) =>
    tok.values = << SubSeq(valuesString, 2, Len(valuesString) - 1) >>

\* every clause of the table is a membership test
MembershipOnly(table) == \A k \in 1..Len(table.clauses) : table.clauses[k].shape = "in"

\* C1: once introspect has returned, in every table written with membership
\* clauses only, every column that exactly one clause names, with literals
\* that are not empty, has as enumValues the clause's literals, sorted
\* ascending.
C1_MembershipAttached ==
  pc = "done" =>
    \A t \in 1..Len(db) :
      MembershipOnly(db[t]) =>
        \A k \in 1..Len(db[t].clauses) :
          LET cl == db[t].clauses[k]
          IN  (/\ \A j \in 1..Len(db[t].clauses) : db[t].clauses[j].column = cl.column => j = k
               /\ \A v \in 1..Len(cl.values) : cl.values[v] # <<>>)
              => \A c \in 1..Len(metadata[t].columns) :
                   metadata[t].columns[c].name = cl.column =>
                     /\ ~metadata[t].columns[c].enumValues.isNull
                     /\ Ascending(metadata[t].columns[c].enumValues.values)
                     /\ SameStrings(metadata[t].columns[c].enumValues.values, cl.values)

\* C2: a CHECK span that is a range test or OR-joined tests is no
\* membership test and produces no registry entry: once introspect has
\* returned, the registry has no entry for the column such a span names,
\* unless a membership clause of the table names that column.
C2_NonMembershipIgnored ==
  pc = "done" =>
    \A t \in 1..Len(db) :
      \A k \in 1..Len(db[t].clauses) :
        LET cl == db[t].clauses[k]
        IN  (/\ cl.shape \in {"between", "or"}
             /\ \A j \in 1..Len(db[t].clauses) :
                  db[t].clauses[j].shape = "in" =>
                    toLowerCase(db[t].clauses[j].column) # toLowerCase(cl.column))
            => \A e \in enums :
                 e.key # db[t].name \o <<".">> \o toLowerCase(cl.column)

\* C3: once introspect has returned for a database written with membership
\* clauses only, every enumValues is null or a non-empty sequence, and it
\* is null for every column of a table whose text holds no CHECK and for
\* every column without a registry entry.
C3_NullOrNonEmpty ==
  (pc = "done" /\ \A t \in 1..Len(db) : MembershipOnly(db[t])) =>
    \A t \in 1..Len(metadata) :
      \A c \in 1..Len(metadata[t].columns) :
        LET enumValues == metadata[t].columns[c].enumValues
            key == metadata[t].name \o <<".">> \o metadata[t].columns[c].name
        IN  /\ enumValues.isNull \/ enumValues.values # <<>>
            /\ IndexOf(toLowerCase(db[t].sql), check, 0) = -1 => enumValues.isNull
            /\ (\A e \in enums : e.key # key) => enumValues.isNull

\* needle occurs in s
Occurs(needle, s) == IndexOf(s, needle, 0) # -1

\* C4: the column and the values parseEnumConstraints returns for a table
\* written with membership clauses only have the casing of the text: each
\* occurs in the text as returned.
C4_SourceCasingKept ==
  (pc = "store" /\ MembershipOnly(db[rowIndex])) =>
    \A k \in 1..Len(constraints) :
      /\ Occurs(constraints[k].column, rows[rowIndex].sql)
      /\ \A v \in 1..Len(constraints[k].values) :
           Occurs(constraints[k].values[v], rows[rowIndex].sql)

\* the bodies of the clauses of a table, as the scan reads them
ClauseSpans(table) ==
  [k \in 1..Len(table.clauses) |-> NormalizeSql(ClauseBody(table.clauses[k]))]

\* C8: every CHECK clause with a balanced pair is visited exactly once, in
\* source order, whatever text holds the letters of check before it: when
\* the scan of a table without an unclosed clause has returned, the spans
\* handed to the recognizer that are clause bodies are the bodies of the
\* table's clauses, one each, in order.
C8_EachClauseVisitedOnce ==
  (/\ pc = "store"
   /\ \A k \in 1..Len(db[rowIndex].clauses) : db[rowIndex].clauses[k].shape # "unclosed")
  => LET bodies == ClauseSpans(db[rowIndex])
         handed == [k \in 1..Len(spans) |-> spans[k].content]
     IN  SelectSeq(handed, LAMBDA c : \E k \in 1..Len(bodies) : bodies[k] = c) = bodies

====
